---------------------------- MODULE Spec2Model ----------------------------
(***************************************************************************)
(* A model of submerger (src/src/main.rs, src/src/merge.rs): the timestamp *)
(* arithmetic, the track transformer apply_sub_changes, the merge engine,  *)
(* the VTT adapter, the filename matcher and the recursive pair loop.      *)
(*                                                                         *)
(* Text is modelled as sequences of tokens (one token per marker, tag or   *)
(* word), file names as sequences of one-character strings, durations as   *)
(* signed integers of milliseconds.                                        *)
(***************************************************************************)
EXTENDS Integers, Sequences, FiniteSets, TLC

VARIABLES
    \* ---- timestamp conversions (main.rs:195-226) ----
    original,      \* an SrtTimestamp handed to srt_to_chrono
    duration,      \* a chrono::Duration (ms) handed to chrono_to_srt
    roundtrip,     \* Some(chrono_to_srt(srt_to_chrono(original))), or None
    rendered,      \* Some(<<chrono_to_srt(duration), chrono_to_srt(-duration)>>), or None
    \* ---- track transformer (main.rs:228-258) ----
    srt,           \* the SubRip track apply_sub_changes mutates
    loaded,        \* the track as it was loaded (before any change)
    applied,       \* the offsets (f32, in 1/10 ms) of the calls made so far
    color_opt,     \* Option<String>: None or a colour
    position,      \* SubPosition
    \* ---- merge engine (merge.rs:141-168) ----
    srt1, srt2,    \* the two tracks passed to merge
    merge_args,    \* Some(<<srt2_color_opt, srt2_position>>) of the call, or None
    merged,        \* Some(the returned track), or None
    \* ---- VTT adapter (merge.rs:170-210) ----
    vtt,           \* a parsed WebVtt: a sequence of blocks
    subrip,        \* Some(vtt_to_subrip(vtt)), or None
    \* ---- filename matcher (merge.rs:32-36) ----
    sub1_lang, sub2_lang, find_vtt,   \* the matcher's arguments
    file_form,     \* the parts X, lang, hi, ext the file name was built from
    file_name,     \* the file name
    captures,      \* None before the match is run, then Some(Option<Captures>)
    \* ---- recursive mode (main.rs:291-360, merge.rs:54-111) ----
    tree,          \* directory -> its read_dir() listing (a sequence of file names)
    unreadable,    \* the paths load_sub fails on
    unwritable,    \* the output paths File::create fails on
    matches,       \* find_matching_subtitle_files' result: directory -> Seq(SubFile)
    pending,       \* directories of matches the for loop has not visited yet
    dir,           \* Some(the directory being processed), or None
    cursor,        \* index of sub1 in the current directory's subs
    outputs,       \* the files written: output path -> the pair merged into it last
    journal,       \* every pair handed to load_sub, in order, with its outcome
    rpc,           \* "start", "dirs", "subs", "done" or "failed" ("idle": not run)
    \* ---- format adapter (merge.rs:113-139) ----
    load_path,     \* the file name of the path given to load_sub
    load_file,     \* the file at that path: readable or not, and its content
    load_result    \* None before the call, then Some(the Result load_sub returns)

timeVars  == <<original, duration, roundtrip, rendered>>
applyVars == <<srt, loaded, applied, color_opt, position>>
mergeVars == <<srt1, srt2, merge_args, merged>>
vttVars   == <<vtt, subrip>>
regexVars == <<sub1_lang, sub2_lang, find_vtt, file_form, file_name, captures>>
recVars   == <<tree, unreadable, unwritable, matches, pending, dir, cursor,
               outputs, journal, rpc>>
loadVars  == <<load_path, load_file, load_result>>
vars == <<timeVars, applyVars, mergeVars, vttVars, regexVars, recVars, loadVars>>

None == <<>>
Some(x) == <<x>>

Abs(x) == IF x < 0 THEN -x ELSE x

(***************************************************************************)
(* Timestamps.  SrtTimestamp has u8 hours, minutes, seconds and u16        *)
(* milliseconds; the casts `as u8` / `as u16` keep the low bits.           *)
(***************************************************************************)
AsU8(x)  == x % 256
AsU16(x) == x % 65536

SrtTimestamp(h, m, s, ms) ==
    [hours |-> h, minutes |-> m, seconds |-> s, milliseconds |-> ms]

\* f32_to_chrono rounding down instead of toward zero
f32_to_chrono_floor(secs) == secs \div 10

\* f32_to_chrono: the offset in seconds times 1000, cast to i64 (toward zero).
\* The f32 is represented by its value in tenths of a millisecond.
f32_to_chrono(secs) ==
    IF secs >= 0 THEN secs \div 10 ELSE -((-secs) \div 10)

srt_to_chrono(t) ==
    (t.hours * 60 * 60 * 1000) + (t.minutes * 60 * 1000)
        + (t.seconds * 1000) + t.milliseconds

\* chrono_to_srt with the sign kept (no .abs()): Rust's / and % truncate
\* toward zero, and the casts wrap.
chrono_to_srt_signed(d) ==
    LET q(n, k) == IF n >= 0 THEN n \div k ELSE -((-n) \div k)
        r(n, k) == n - k * q(n, k)
    IN  SrtTimestamp(AsU8(q(d, 60 * 60 * 1000)),
                     AsU8(r(q(d, 60 * 1000), 60)),
                     AsU8(r(q(d, 1000), 60)),
                     AsU16(r(d, 1000)))

\* chrono_to_srt with the minutes not reduced modulo 60.
chrono_to_srt_minutes(d) ==
    LET total_millis == Abs(d)
    IN  SrtTimestamp(AsU8(total_millis \div (60 * 60 * 1000)),
                     AsU8(total_millis \div (60 * 1000)),
                     AsU8((total_millis \div 1000) % 60),
                     AsU16(total_millis % 1000))

chrono_to_srt(d) ==
    LET total_millis == Abs(d)
    IN  SrtTimestamp(AsU8(total_millis \div (60 * 60 * 1000)),
                     AsU8((total_millis \div (60 * 1000)) % 60),
                     AsU8((total_millis \div 1000) % 60),
                     AsU16(total_millis % 1000))

\* ---- inputs of the conversions ----
MaxHours == 1

HourValues   == (0 .. MaxHours) \cup {23, 255}
MinuteValues == {0, 2, 23, 59}
SecondValues == {0, 3, 45, 59}
MilliValues  == {0, 1, 678, 999}

Timestamps ==
    { SrtTimestamp(h, m, s, ms) :
        h \in HourValues, m \in MinuteValues, s \in SecondValues, ms \in MilliValues }

\* 3723678 ms = 1h 2m 3s 678ms (main.rs:400); 921600000 ms = 256 h.
Magnitudes == {0, 1, 999, 1000, 60000, 3723678, 921599999, 921600000, 925323678}
Durations  == Magnitudes \cup { -m : m \in Magnitudes }

TimeIdle ==
    /\ original = SrtTimestamp(0, 0, 0, 0)
    /\ duration = 0
    /\ roundtrip = None
    /\ rendered = None

TimeInit ==
    /\ original \in Timestamps
    /\ duration \in Durations
    /\ roundtrip = None
    /\ rendered = None

\* test_srt_conversion_roundtrip (main.rs:380-381)
RoundTrip ==
    /\ roundtrip = None
    /\ roundtrip' = Some(chrono_to_srt(srt_to_chrono(original)))
    /\ UNCHANGED <<original, duration, rendered>>

\* test_negative_duration_to_srt (main.rs:400-401), for duration and -duration
Render ==
    /\ rendered = None
    /\ rendered' = Some(<<chrono_to_srt(duration), chrono_to_srt(-duration)>>)
    /\ UNCHANGED <<original, duration, roundtrip>>

(***************************************************************************)
(* Track transformer.  A cue is an SrtSubtitle; its text is a sequence of  *)
(* lines, a line a sequence of tokens.                                     *)
(***************************************************************************)
SubPosition ==
    {"BottomLeft", "BottomCenter", "BottomRight",
     "MiddleLeft", "MiddleCenter", "MiddleRight",
     "TopLeft", "TopCenter", "TopRight"}

\* impl fmt::Display for SubPosition
Display(p) ==
    CASE p = "BottomLeft"   -> "{\\an1}"
      [] p = "BottomCenter" -> "{\\an2}"
      [] p = "BottomRight"  -> "{\\an3}"
      [] p = "MiddleLeft"   -> "{\\an4}"
      [] p = "MiddleCenter" -> "{\\an5}"
      [] p = "MiddleRight"  -> "{\\an6}"
      [] p = "TopLeft"      -> "{\\an7}"
      [] p = "TopCenter"    -> "{\\an8}"
      [] p = "TopRight"     -> "{\\an9}"

PositionMarkers == { Display(p) : p \in SubPosition }

Colors == {"#fbf1c7"}

\* format!("<font color=\"{color}\">") and "</font>", or two empty strings
color_start(c_opt) == IF c_opt = None THEN <<>> ELSE <<"<font color=\"#fbf1c7\">">>
color_end(c_opt)   == IF c_opt = None THEN <<>> ELSE <<"</font>">>

\* format!("{position} {color_start}{txt}{color_end}")
FormatLine(p, c_opt, txt) ==
    <<Display(p), " ">> \o color_start(c_opt) \o txt \o color_end(c_opt)

\* the line kept as it is (no strip_prefix)
KeepPrefix(txt) == txt

\* text.strip_prefix(r"{\an8}"), the line replaced by the rest when it matches
StripPrefix(txt) ==
    IF Len(txt) > 0 /\ txt[1] = "{\\an8}" THEN Tail(txt) ELSE txt

\* The loop body with the offset added to the start only.
ChangeCue_start_only(sub, c_opt, p, secs) ==
    [sequence      |-> sub.sequence,
     line_position |-> None,
     text  |-> [j \in 1 .. Len(sub.text) |->
                    FormatLine(p, c_opt, StripPrefix(sub.text[j]))],
     start |-> chrono_to_srt(srt_to_chrono(sub.start) + f32_to_chrono(secs)),
     end   |-> sub.end]

\* one iteration of the loop of apply_sub_changes
ChangeCue(sub, c_opt, p, secs) ==
    [sequence      |-> sub.sequence,
     line_position |-> None,
     text  |-> [j \in 1 .. Len(sub.text) |->
                    FormatLine(p, c_opt, StripPrefix(sub.text[j]))],
     start |-> chrono_to_srt(srt_to_chrono(sub.start) + f32_to_chrono(secs)),
     end   |-> chrono_to_srt(srt_to_chrono(sub.end) + f32_to_chrono(secs))]

apply_sub_changes(track, c_opt, p, secs) ==
    [i \in 1 .. Len(track) |-> ChangeCue(track[i], c_opt, p, secs)]

\* ---- inputs of the transformer ----
MaxCues == 2
MaxCalls == 2

Hello   == <<"Hello">>
Legacy  == <<"{\\an8}", "Hello">>
Stacked == <<"{\\an8}", "{\\an8}", "Hello">>
Middle  == <<"{\\an5}", "Hello">>

SrtSubtitle(n, s, e, t, lp) ==
    [sequence |-> n, start |-> s, end |-> e, text |-> t, line_position |-> lp]

LoadedCues ==
    { SrtSubtitle(7, SrtTimestamp(0, 0, 1, 0), SrtTimestamp(0, 0, 2, 0),
                  <<Hello, Legacy>>, Some("X1:40")),
      SrtSubtitle(3, SrtTimestamp(0, 0, 0, 0), SrtTimestamp(0, 0, 0, 500),
                  <<Stacked>>, None),
      SrtSubtitle(1, SrtTimestamp(255, 59, 59, 0), SrtTimestamp(255, 59, 59, 999),
                  <<Middle>>, None) }

RECURSIVE SeqsUpTo(_, _)
SeqsUpTo(S, n) ==
    IF n = 0 THEN {<<>>}
    ELSE LET shorter == SeqsUpTo(S, n - 1)
         IN  shorter \cup { Append(q, x) : q \in shorter, x \in S }

\* offsets in tenths of a millisecond: 0, +-0.5 ms, +-1 s, +-3 s, +-1 h
OffsetValues == {0, 5, -5, 10000, -10000, 30000, -30000, 36000000, -36000000}

ApplyIdle ==
    /\ srt = <<>>
    /\ loaded = <<>>
    /\ applied = <<>>
    /\ color_opt = None
    /\ position = "BottomCenter"

ApplyInit ==
    /\ srt \in SeqsUpTo(LoadedCues, MaxCues)
    /\ loaded = srt
    /\ applied = <<>>
    /\ color_opt \in {None} \cup { Some(c) : c \in Colors }
    /\ position \in SubPosition

\* apply_sub_changes(&mut srt, color_opt, position, offset)
ApplySubChanges ==
    /\ Len(applied) < MaxCalls
    /\ \E secs \in OffsetValues :
        /\ srt' = apply_sub_changes(srt, color_opt, position, secs)
        /\ applied' = Append(applied, secs)
    /\ UNCHANGED <<loaded, color_opt, position>>

(***************************************************************************)
(* Merge engine.                                                           *)
(***************************************************************************)
\* lines 154-159: srt2's subtitles cloned, every line reformatted
DecorateSubs(subs, c_opt, p) ==
    [i \in 1 .. Len(subs) |->
        [subs[i] EXCEPT !.text =
            [j \in 1 .. Len(subs[i].text) |-> FormatLine(p, c_opt, subs[i].text[j])]]]

\* lines 164-166: sequence = i as u32 + 1 for the 0-based index i (a track
\* here is far shorter than 2^32 cues, so the cast changes nothing)
Renumber(subs) ==
    [i \in 1 .. Len(subs) |-> [subs[i] EXCEPT !.sequence = (i - 1) + 1]]

\* merge with the renumbering loop left out
merge_unnumbered(s1, s2, c_opt, p) == s1 \o DecorateSubs(s2, c_opt, p)

merge(s1, s2, c_opt, p) == Renumber(s1 \o DecorateSubs(s2, c_opt, p))

MergeIdle ==
    /\ srt1 = <<>>
    /\ srt2 = <<>>
    /\ merge_args = None
    /\ merged = None

MergeInit ==
    /\ srt1 \in SeqsUpTo(LoadedCues, MaxCues)
    /\ srt2 \in SeqsUpTo(LoadedCues, MaxCues)
    /\ merge_args = None
    /\ merged = None

\* merge(&srt1, &srt2, srt2_color_opt, srt2_position)
Merge ==
    /\ merged = None
    /\ \E c_opt \in {None} \cup { Some(c) : c \in Colors }, p \in SubPosition :
        /\ merge_args' = Some(<<c_opt, p>>)
        /\ merged' = Some(merge(srt1, srt2, c_opt, p))
    /\ UNCHANGED <<srt1, srt2>>

(***************************************************************************)
(* VTT adapter.  A WebVtt is iterated block by block; a block is a cue     *)
(* (VttBlock::Que) or something else (a note, a style, a region).          *)
(***************************************************************************)
Que(s, e, payload) == [kind |-> "Que", start |-> s, end |-> e, payload |-> payload]
NonCue(k)          == [kind |-> k, start |-> SrtTimestamp(0, 0, 0, 0),
                       end |-> SrtTimestamp(0, 0, 0, 0), payload |-> <<>>]

vtt_block_to_srt(vtt_block, sequence) ==
    IF vtt_block.kind = "Que"
    THEN Some(SrtSubtitle(sequence,
                          SrtTimestamp(vtt_block.start.hours, vtt_block.start.minutes,
                                       vtt_block.start.seconds,
                                       vtt_block.start.milliseconds),
                          SrtTimestamp(vtt_block.end.hours, vtt_block.end.minutes,
                                       vtt_block.end.seconds, vtt_block.end.milliseconds),
                          vtt_block.payload, None))
    ELSE None

\* the for loop of vtt_to_subrip: i counts every block
RECURSIVE VttLoop(_, _, _)
VttLoop(blocks, i, subtitles) ==
    IF blocks = <<>> THEN subtitles
    ELSE LET sub == vtt_block_to_srt(Head(blocks), i)
         IN  VttLoop(Tail(blocks), i + 1,
                     IF sub = None THEN subtitles ELSE Append(subtitles, sub[1]))

vtt_to_subrip(doc) == VttLoop(doc, 1, <<>>)

MaxBlocks == 3

VttBlocks ==
    { Que(SrtTimestamp(0, 0, 1, 0), SrtTimestamp(0, 0, 2, 0), <<Hello>>),
      Que(SrtTimestamp(0, 0, 3, 0), SrtTimestamp(0, 0, 4, 500), <<Legacy, Hello>>),
      NonCue("Note"), NonCue("Style") }

VttIdle ==
    /\ vtt = <<>>
    /\ subrip = None

VttInit ==
    /\ vtt \in SeqsUpTo(VttBlocks, MaxBlocks)
    /\ subrip = None

\* "vtt" => vtt_to_subrip(WebVtt::parse(&file)?) in load_sub
ConvertVtt ==
    /\ subrip = None
    /\ subrip' = Some(vtt_to_subrip(vtt))
    /\ UNCHANGED vtt

(***************************************************************************)
(* Filename matcher.  A file name is a sequence of characters.  The regex  *)
(* of get_sub_path_regex is                                                *)
(*     [^\.]+\.(?P<lang>L1|L2)(\.(?P<hearing>hi))?\.(?P<ext>E1|E2)$        *)
(* and Regex::captures returns the leftmost match, preferring the earlier  *)
(* alternative and the present optional group.                             *)
(***************************************************************************)
en  == <<"e", "n">>
ja  == <<"j", "a">>
hi  == <<"h", "i">>
de  == <<"d", "e">>
ext_srt == <<"s", "r", "t">>
ext_vtt == <<"v", "t", "t">>
ext_txt == <<"t", "x", "t">>
Dot == <<".">>

\* lines 33-35: the alternatives of the lang and ext groups; the pattern has
\* no ^, so a match may start at any position
get_sub_path_regex(lang1, lang2, vtt_too) ==
    [langs |-> <<lang1, lang2>>,
     exts  |-> IF vtt_too THEN <<ext_srt, ext_vtt>> ELSE <<ext_srt>>]

\* the ways through the pattern after [^\.]+, in the order the regex tries them
Alternatives(re) ==
    [n \in 1 .. (Len(re.langs) * 2 * Len(re.exts)) |->
        LET x == ((n - 1) % Len(re.exts)) + 1
            h == ((n - 1) \div Len(re.exts)) % 2
            l == ((n - 1) \div (2 * Len(re.exts))) + 1
        IN  [lang |-> re.langs[l],
             hearing |-> IF h = 0 THEN Some(hi) ELSE None,
             ext |-> re.exts[x]]]

\* alternative alt matches name from position s to the end ($)
MatchesAt(name, s, alt) ==
    \E e \in s .. Len(name) :
        /\ \A j \in s .. e : name[j] # "."
        /\ SubSeq(name, e + 1, Len(name)) =
              Dot \o alt.lang
                  \o (IF alt.hearing = None THEN <<>> ELSE Dot \o alt.hearing[1])
                  \o Dot \o alt.ext

Min(S) == CHOOSE x \in S : \A y \in S : x <= y

\* Regex::captures(file_name)
RegexCaptures(re, name) ==
    LET alts   == Alternatives(re)
        starts == { s \in 1 .. Len(name) :
                      \E n \in DOMAIN alts : MatchesAt(name, s, alts[n]) }
    IN  IF starts = {} THEN None
        ELSE LET s0 == Min(starts)
                 n0 == Min({ n \in DOMAIN alts : MatchesAt(name, s0, alts[n]) })
             IN  Some(alts[n0])

\* ---- inputs of the matcher ----
LangCodes == {en, ja, hi}
FileLangs == {en, ja, hi, de}
FileExts  == {ext_srt, ext_vtt, ext_txt}
FileBases == {<<"m">>, <<"m", "o">>}

\* the file name X.lang[.hi].ext
FormName(f) ==
    f.x \o Dot \o f.lang \o (IF f.hi THEN Dot \o hi ELSE <<>>) \o Dot \o f.ext

RegexIdle ==
    /\ file_form = [x |-> <<"m">>, lang |-> en, hi |-> FALSE, ext |-> ext_srt]
    /\ file_name = FormName(file_form)
    /\ captures = None

RegexInit ==
    /\ sub1_lang \in LangCodes
    /\ sub2_lang \in LangCodes \ {sub1_lang}
    /\ find_vtt \in BOOLEAN
    /\ file_form \in [x : FileBases, lang : FileLangs, hi : BOOLEAN, ext : FileExts]
    /\ file_name = FormName(file_form)
    /\ captures = None

\* subtitle_pattern.captures(file_name), merge.rs:83 and test.rs:30
MatchFile ==
    /\ captures = None
    /\ captures' = Some(RegexCaptures(get_sub_path_regex(sub1_lang, sub2_lang, find_vtt),
                                      file_name))
    /\ UNCHANGED <<sub1_lang, sub2_lang, find_vtt, file_form, file_name>>

(***************************************************************************)
(* Recursive mode: the scan of the tree and the pair loop of main.         *)
(***************************************************************************)
\* base_file_stem: the first (leftmost, longest) run of characters other
\* than '.' in the file name; None when the name has none (the ? error)
base_file_stem(name) ==
    LET firsts == { i \in 1 .. Len(name) : name[i] # "." }
    IN  IF firsts = {} THEN None
        ELSE LET s0 == Min(firsts)
                 ends == { e \in s0 .. Len(name) :
                             /\ \A j \in s0 .. e : name[j] # "."
                             /\ (e = Len(name) \/ name[e + 1] = ".") }
             IN  Some(SubSeq(name, s0, Min(ends)))

SubFile(d, name, caps) ==
    [path |-> <<d, name>>, lang |-> caps.lang, hi |-> caps.hearing # None]

\* lines 79-107 for one directory: the matching files, in read_dir() order
RECURSIVE MatchingIn(_, _, _)
MatchingIn(d, listing, re) ==
    IF listing = <<>> THEN <<>>
    ELSE LET caps == RegexCaptures(re, Head(listing))
             rest == MatchingIn(d, Tail(listing), re)
         IN  IF caps = None THEN rest ELSE <<SubFile(d, Head(listing), caps[1])>> \o rest

\* find_matching_subtitle_files: directories without a match are absent
find_matching_subtitle_files(t, lang1, lang2, vtt_too) ==
    LET re    == get_sub_path_regex(lang1, lang2, vtt_too)
        found == [d \in DOMAIN t |-> MatchingIn(d, t[d], re)]
    IN  [d \in { d \in DOMAIN t : found[d] # <<>> } |-> found[d]]

\* lines 314-326: the inner loop over sub2, from index k on
RECURSIVE InnerLoop(_, _, _, _, _, _, _)
InnerLoop(subs, sub1, k, l1, l2, lang1, lang2) ==
    IF k > Len(subs) THEN <<l1, l2>>
    ELSE LET sub2 == subs[k]
             hit  == /\ base_file_stem(sub1.path[2]) = base_file_stem(sub2.path[2])
                     /\ sub1.lang = lang1
                     /\ sub2.lang = lang2
         IN  InnerLoop(subs, sub1, k + 1,
                       IF hit /\ (~sub1.hi \/ l1 = None) THEN Some(sub1) ELSE l1,
                       IF hit /\ (~sub2.hi \/ l2 = None) THEN Some(sub2) ELSE l2,
                       lang1, lang2)

\* <<l1, l2>> after the inner loop for sub1 = subs[i]
Resolve(subs, i, lang1, lang2) == InnerLoop(subs, subs[i], 1, None, None, lang1, lang2)

\* dir.join(no_ext.with_extension(&out_ext)): the directory and the stem
OutPath(d, s1) == <<d, base_file_stem(s1.path[2])[1]>>

\* lines 332-356 for one pair: the first step that fails, or "written"
Outcome(s1, s2, out) ==
    IF s1.path \in unreadable THEN "load_sub(s1) failed"
    ELSE IF s2.path \in unreadable THEN "load_sub(s2) failed"
    ELSE IF out \in unwritable THEN "File::create failed"
    ELSE "written"

\* a per-pair error logged, the loop going on with the next sub1
LogAndContinue == "subs"

\* the ? of lines 332, 333, 355: the error leaves main
Propagate == "failed"

\* ---- inputs of recursive mode ----
MaxFiles == 3

Root   == "/tv"
Season == "/tv/s1"
Dirs   == {Root, Season}

FileName(x, lang, hearing, ext) ==
    FormName([x |-> x, lang |-> lang, hi |-> hearing, ext |-> ext])

a_en    == FileName(<<"a">>, en, FALSE, ext_srt)
a_en_hi == FileName(<<"a">>, en, TRUE, ext_srt)
a_ja    == FileName(<<"a">>, ja, FALSE, ext_srt)
a_ja_hi == FileName(<<"a">>, ja, TRUE, ext_vtt)
b_en    == FileName(<<"b">>, en, FALSE, ext_srt)
b_ja    == FileName(<<"b">>, ja, FALSE, ext_vtt)
b_de    == FileName(<<"b">>, de, FALSE, ext_srt)

RootFiles == {a_en, a_en_hi, a_ja, a_ja_hi}

\* the orders read_dir() may list up to n of the files of S in
Listings(S, n) ==
    { q \in SeqsUpTo(S, n) : q # <<>> /\ \A i, j \in DOMAIN q : i # j => q[i] # q[j] }

SeasonListings == { <<b_en, b_ja>>, <<b_ja, b_de, b_en>> }

\* the paths of the files of tree t
PathsOf(t) == UNION { { <<d, t[d][i]>> : i \in DOMAIN t[d] } : d \in DOMAIN t }

RecIdle ==
    /\ tree = <<>>
    /\ unreadable = {}
    /\ unwritable = {}
    /\ matches = <<>>
    /\ pending = {}
    /\ dir = None
    /\ cursor = 0
    /\ outputs = <<>>
    /\ journal = <<>>
    /\ rpc = "idle"

LangIdle ==
    /\ sub1_lang = en
    /\ sub2_lang = ja
    /\ find_vtt = TRUE

RecInit ==
    /\ LangIdle
    /\ \E top \in Listings(RootFiles, MaxFiles), sub \in SeasonListings :
          tree = [d \in Dirs |-> IF d = Root THEN top ELSE sub]
    /\ unreadable \in {{}} \cup { {bad} : bad \in PathsOf(tree) }
    /\ unwritable \in {{}, {<<Root, <<"a">>>>}, {<<Season, <<"b">>>>}}
    /\ matches = <<>>
    /\ pending = {}
    /\ dir = None
    /\ cursor = 0
    /\ outputs = <<>>
    /\ journal = <<>>
    /\ rpc = "start"

(***************************************************************************)
(* Format adapter: load_sub.  The parsers of subtp are outside the         *)
(* repository; a file's content is given by what each of them returns for  *)
(* it (None: the parse fails).                                             *)
(***************************************************************************)
\* Path::extension: the part of the file name after its last '.', None when
\* the name has no '.' or only a leading one
Extension(name) ==
    LET dots == { i \in 2 .. Len(name) : name[i] = "." }
    IN  IF dots = {} THEN None
        ELSE LET last == CHOOSE i \in dots : \A j \in dots : j <= i
             IN  Some(SubSeq(name, last + 1, Len(name)))

LoadResult(kind, track, ext) == [kind |-> kind, track |-> track, ext |-> ext]

\* load_sub(path): read_to_string, the extension, the match on it
load_sub(name, file) ==
    IF ~file.readable THEN LoadResult("io error", <<>>, <<>>)
    ELSE IF Extension(name) = None THEN LoadResult("no extension", <<>>, <<>>)
    ELSE LET ext == Extension(name)[1]
         IN  IF ext = ext_vtt
             THEN IF file.vtt = None THEN LoadResult("parse error", <<>>, <<>>)
                  ELSE LoadResult("Ok", vtt_to_subrip(file.vtt[1]), <<>>)
             ELSE IF ext = ext_srt
             THEN IF file.srt = None THEN LoadResult("parse error", <<>>, <<>>)
                  ELSE LoadResult("Ok", file.srt[1], <<>>)
             ELSE LoadResult("invalid extension", <<>>, ext)

\* ---- inputs of load_sub ----
LoadExts ==
    { ext_srt, <<"S", "R", "T">>, <<"S", "r", "t">>,
      ext_vtt, <<"V", "T", "T">>, <<"V", "t", "t">>,
      <<"a", "s", "s">>, ext_txt }

LoadNames ==
    { <<"m">> \o Dot \o e : e \in LoadExts }
        \cup { <<"m">> \o Dot \o en \o Dot \o e : e \in {ext_srt, <<"S", "R", "T">>} }
        \cup { <<"m">>, Dot \o ext_srt }

FileContents ==
    { [srt |-> Some(t), vtt |-> None] : t \in SeqsUpTo(LoadedCues, MaxCues) }
        \cup { [srt |-> None, vtt |-> Some(d)] : d \in SeqsUpTo(VttBlocks, MaxBlocks) }
        \cup { [srt |-> None, vtt |-> None] }

LoadIdle ==
    /\ load_path = <<>>
    /\ load_file = [readable |-> FALSE, srt |-> None, vtt |-> None]
    /\ load_result = None

LoadInit ==
    /\ load_path \in LoadNames
    /\ \E ok \in BOOLEAN, c \in FileContents :
          load_file = [readable |-> ok, srt |-> c.srt, vtt |-> c.vtt]
    /\ load_result = None

\* let mut srt1 = load_sub(sub1)
LoadSub ==
    /\ load_result = None
    /\ load_result' = Some(load_sub(load_path, load_file))
    /\ UNCHANGED <<load_path, load_file>>

notTime  == <<applyVars, mergeVars, vttVars, regexVars, recVars, loadVars>>
notApply == <<timeVars, mergeVars, vttVars, regexVars, recVars, loadVars>>
notMerge == <<timeVars, applyVars, vttVars, regexVars, recVars, loadVars>>
notVtt   == <<timeVars, applyVars, mergeVars, regexVars, recVars, loadVars>>
notRegex == <<timeVars, applyVars, mergeVars, vttVars, recVars, loadVars>>
notRec   == <<timeVars, applyVars, mergeVars, vttVars, regexVars, loadVars>>
notLoad  == <<timeVars, applyVars, mergeVars, vttVars, regexVars, recVars>>

\* let matches = find_matching_subtitle_files(&path, &sub1_lang, &sub2_lang, vtt)?
Scan ==
    /\ rpc = "start"
    /\ matches' = find_matching_subtitle_files(tree, sub1_lang, sub2_lang, find_vtt)
    /\ pending' = DOMAIN matches'
    /\ rpc' = "dirs"
    /\ UNCHANGED <<tree, unreadable, unwritable, dir, cursor, outputs, journal>>

\* for (dir, subs) in matches: a HashMap, iterated in any order
NextDir ==
    /\ rpc = "dirs"
    /\ \E d \in pending :
        /\ dir' = Some(d)
        /\ pending' = pending \ {d}
    /\ cursor' = 1
    /\ rpc' = "subs"
    /\ UNCHANGED <<tree, unreadable, unwritable, matches, outputs, journal>>

\* the for loop over matches is exhausted: Ok(())
Finish ==
    /\ rpc = "dirs"
    /\ pending = {}
    /\ rpc' = "done"
    /\ UNCHANGED <<tree, unreadable, unwritable, matches, pending, dir, cursor,
                   outputs, journal>>

\* for sub1 in &subs is exhausted for this directory
EndDir ==
    /\ rpc = "subs"
    /\ cursor > Len(matches[dir[1]])
    /\ rpc' = "dirs"
    /\ UNCHANGED <<tree, unreadable, unwritable, matches, pending, dir, cursor,
                   outputs, journal>>

\* one iteration of for sub1 in &subs where l1 or l2 stays None
SkipSub ==
    /\ rpc = "subs"
    /\ cursor <= Len(matches[dir[1]])
    /\ LET l == Resolve(matches[dir[1]], cursor, sub1_lang, sub2_lang)
       IN  l[1] = None \/ l[2] = None
    /\ cursor' = cursor + 1
    /\ UNCHANGED <<tree, unreadable, unwritable, matches, pending, dir, outputs,
                   journal, rpc>>

\* one iteration where both are found and every step succeeds: lines 332-356
MergePair ==
    /\ rpc = "subs"
    /\ cursor <= Len(matches[dir[1]])
    /\ LET l == Resolve(matches[dir[1]], cursor, sub1_lang, sub2_lang)
       IN  /\ l[1] # None /\ l[2] # None
           /\ LET s1  == l[1][1]
                  s2  == l[2][1]
                  out == OutPath(dir[1], s1)
              IN  /\ Outcome(s1, s2, out) = "written"
                  /\ outputs' = [o \in DOMAIN outputs \cup {out} |->
                                    IF o = out THEN [s1 |-> s1, s2 |-> s2] ELSE outputs[o]]
                  /\ journal' = Append(journal,
                        [s1 |-> s1, s2 |-> s2, out |-> out, outcome |-> "written"])
    /\ cursor' = cursor + 1
    /\ UNCHANGED <<tree, unreadable, unwritable, matches, pending, dir, rpc>>

\* one iteration where both are found and load_sub or File::create fails
FailPair ==
    /\ rpc = "subs"
    /\ cursor <= Len(matches[dir[1]])
    /\ LET l == Resolve(matches[dir[1]], cursor, sub1_lang, sub2_lang)
       IN  /\ l[1] # None /\ l[2] # None
           /\ LET s1  == l[1][1]
                  s2  == l[2][1]
                  out == OutPath(dir[1], s1)
              IN  /\ Outcome(s1, s2, out) # "written"
                  /\ journal' = Append(journal,
                        [s1 |-> s1, s2 |-> s2, out |-> out,
                         outcome |-> Outcome(s1, s2, out)])
    /\ rpc' = Propagate
    /\ cursor' = IF rpc' = "subs" THEN cursor + 1 ELSE cursor
    /\ UNCHANGED <<tree, unreadable, unwritable, matches, pending, dir, outputs>>

(***************************************************************************)
(* The specifications, one per part of the program.                        *)
(***************************************************************************)
NextTime  == (RoundTrip /\ UNCHANGED notTime) \/ (Render /\ UNCHANGED notTime)
NextApply == ApplySubChanges /\ UNCHANGED notApply
NextMerge == Merge /\ UNCHANGED notMerge
NextVtt   == ConvertVtt /\ UNCHANGED notVtt
NextRegex == MatchFile /\ UNCHANGED notRegex
NextLoad  == LoadSub /\ UNCHANGED notLoad
NextRec   ==
    \/ Scan /\ UNCHANGED notRec
    \/ NextDir /\ UNCHANGED notRec
    \/ Finish /\ UNCHANGED notRec
    \/ EndDir /\ UNCHANGED notRec
    \/ SkipSub /\ UNCHANGED notRec
    \/ MergePair /\ UNCHANGED notRec
    \/ FailPair /\ UNCHANGED notRec

InitTime  ==
    TimeInit /\ ApplyIdle /\ MergeIdle /\ VttIdle /\ LangIdle /\ RegexIdle /\ RecIdle /\ LoadIdle
InitApply ==
    TimeIdle /\ ApplyInit /\ MergeIdle /\ VttIdle /\ LangIdle /\ RegexIdle /\ RecIdle /\ LoadIdle
InitMerge ==
    TimeIdle /\ ApplyIdle /\ MergeInit /\ VttIdle /\ LangIdle /\ RegexIdle /\ RecIdle /\ LoadIdle
InitVtt   ==
    TimeIdle /\ ApplyIdle /\ MergeIdle /\ VttInit /\ LangIdle /\ RegexIdle /\ RecIdle /\ LoadIdle
InitRegex ==
    TimeIdle /\ ApplyIdle /\ MergeIdle /\ VttIdle /\ RegexInit /\ RecIdle /\ LoadIdle
InitRec   ==
    TimeIdle /\ ApplyIdle /\ MergeIdle /\ VttIdle /\ RegexIdle /\ RecInit /\ LoadIdle

InitLoad  ==
    TimeIdle /\ ApplyIdle /\ MergeIdle /\ VttIdle /\ LangIdle /\ RegexIdle /\ RecIdle
        /\ LoadInit

SpecTime  == InitTime /\ [][NextTime]_vars
SpecApply == InitApply /\ [][NextApply]_vars
SpecMerge == InitMerge /\ [][NextMerge]_vars
SpecVtt   == InitVtt /\ [][NextVtt]_vars
SpecRegex == InitRegex /\ [][NextRegex]_vars
SpecRec   == InitRec /\ [][NextRec]_vars
SpecLoad  == InitLoad /\ [][NextLoad]_vars

Init == InitTime
Next == NextTime
Spec == SpecTime

(***************************************************************************)
(* Properties.                                                             *)
(***************************************************************************)
\* the text between the decoration FormatLine puts around a line
Payload(line, c_opt) ==
    SubSeq(line, 3 + Len(color_start(c_opt)), Len(line) - Len(color_end(c_opt)))

CountMarkers(line) == Cardinality({ k \in DOMAIN line : line[k] \in PositionMarkers })

\* C1: merge returns n1+n2 cues, track 1's cues followed by track 2's cues in
\* their original order, numbered 1, 2, ..., n1+n2 whatever the original
\* sequence numbers were.
C1_MergeConcatenatesAndRenumbers ==
    merged # None =>
        LET m  == merged[1]
            n1 == Len(srt1)
            n2 == Len(srt2)
        IN  /\ Len(m) = n1 + n2
            /\ \A i \in 1 .. Len(m) : m[i].sequence = i
            /\ \A i \in 1 .. n1 : m[i] = [srt1[i] EXCEPT !.sequence = i]
            /\ \A i \in 1 .. n2 :
                  /\ m[n1 + i].start = srt2[i].start
                  /\ m[n1 + i].end = srt2[i].end
                  /\ m[n1 + i].line_position = srt2[i].line_position
                  /\ Len(m[n1 + i].text) = Len(srt2[i].text)
                  /\ \A j \in 1 .. Len(srt2[i].text) :
                        Payload(m[n1 + i].text[j], merge_args[1][1]) = srt2[i].text[j]

C1_Witness ==
    /\ merged # None
    /\ Len(srt1) = 2 /\ Len(srt2) >= 1
    /\ srt1[1].sequence = 7 /\ srt1[2].sequence = 7 /\ srt2[1].sequence = 3
    /\ merged[1][1].sequence = 1 /\ merged[1][2].sequence = 2 /\ merged[1][3].sequence = 3

\* C2: merge changes only the sequence field: text lines, start and end of
\* every cue of either input are the same in the merged track.
C2_MergeChangesOnlySequence ==
    merged # None =>
        \A i \in 1 .. Len(merged[1]) :
            LET given == (srt1 \o srt2)[i]
            IN  /\ merged[1][i].text = given.text
                /\ merged[1][i].start = given.start
                /\ merged[1][i].end = given.end

SameTimes(a, b) ==
    /\ Len(a) = Len(b)
    /\ \A i \in 1 .. Len(a) : a[i].start = b[i].start /\ a[i].end = b[i].end

\* C7: applying the offset step with d and then with -d returns every start
\* and end to its loaded value, and d = 0 leaves every timestamp unchanged.
C7_OffsetThenInverseRestores ==
    /\ (Len(applied) = 2 /\ applied[2] = -applied[1]) => SameTimes(srt, loaded)
    /\ (Len(applied) = 1 /\ applied[1] = 0) => SameTimes(srt, loaded)

\* t + d stays within what an SrtTimestamp holds: not below zero, below 256 h
Representable(t, d) ==
    /\ srt_to_chrono(t) + f32_to_chrono(d) >= 0
    /\ srt_to_chrono(t) + f32_to_chrono(d) < 256 * 60 * 60 * 1000

\* C7 (amended): d and then -d returns a start or end t to its loaded value
\* whenever 0 <= t + d < 256 h; an offset of zero milliseconds leaves every
\* timestamp unchanged.
C7_OffsetThenInverseRestoresInRange ==
    /\ (Len(applied) = 2 /\ applied[2] = -applied[1]) =>
          /\ Len(srt) = Len(loaded)
          /\ \A i \in 1 .. Len(srt) :
                /\ Representable(loaded[i].start, applied[1])
                      => srt[i].start = loaded[i].start
                /\ Representable(loaded[i].end, applied[1])
                      => srt[i].end = loaded[i].end
    /\ (Len(applied) >= 1 /\ \A k \in DOMAIN applied : f32_to_chrono(applied[k]) = 0)
          => SameTimes(srt, loaded)

C7_Witness ==
    /\ applied = <<-10000, 10000>>
    /\ Len(srt) >= 1
    /\ loaded[1].start = SrtTimestamp(0, 0, 1, 0)
    /\ srt[1].start = SrtTimestamp(0, 0, 1, 0)
    /\ srt[1].end = SrtTimestamp(0, 0, 2, 0)

\* C8: chrono_to_srt(srt_to_chrono(ts)) = ts, field for field, for every ts
\* with minutes, seconds < 60, milliseconds < 1000 and hours a u8.
C8_TimestampRoundTrip ==
    roundtrip # None => roundtrip[1] = original

C8_Witness ==
    /\ original = SrtTimestamp(1, 23, 45, 678)
    /\ roundtrip = Some(SrtTimestamp(1, 23, 45, 678))

Decomposed(t) ==
    t.hours * 3600000 + t.minutes * 60000 + t.seconds * 1000 + t.milliseconds

\* C9: chrono_to_srt(D) = chrono_to_srt(-D) for every duration D, and the
\* fields decompose |D| exactly.
C9_AbsoluteValueRendered ==
    rendered # None =>
        /\ rendered[1][1] = rendered[1][2]
        /\ Decomposed(rendered[1][1]) = Abs(duration)

\* C9 (amended): chrono_to_srt(D) = chrono_to_srt(-D) for every duration D, no
\* field is negative, and the fields decompose |D| exactly when |D| < 256 h
\* (the hours field is a u8 and keeps the hours modulo 256).
C9_AbsoluteValueRenderedBelow256h ==
    rendered # None =>
        LET t == rendered[1][1]
        IN  /\ t = rendered[1][2]
            /\ t.hours \in 0 .. 255 /\ t.minutes \in 0 .. 59
            /\ t.seconds \in 0 .. 59 /\ t.milliseconds \in 0 .. 999
            /\ Abs(duration) < 256 * 3600000 => Decomposed(t) = Abs(duration)
            /\ Decomposed(t) = Abs(duration) % (256 * 3600000)

C9_Witness ==
    /\ duration = -3723678
    /\ rendered = Some(<<SrtTimestamp(1, 2, 3, 678), SrtTimestamp(1, 2, 3, 678)>>)

IsQue(b) == b.kind = "Que"

\* C10: vtt_to_subrip returns exactly the cue blocks in source order, numbered
\* 1, 2, ..., k; non-cue blocks leave no gap in the numbering.
C10_VttCuesDenselyNumbered ==
    subrip # None =>
        LET cues == SelectSeq(vtt, IsQue)
        IN  /\ Len(subrip[1]) = Len(cues)
            /\ \A i \in 1 .. Len(cues) :
                  /\ subrip[1][i].sequence = i
                  /\ subrip[1][i].start = cues[i].start
                  /\ subrip[1][i].end = cues[i].end
                  /\ subrip[1][i].text = cues[i].payload

\* C5: for lang1 # lang2 and a file name X.lang[.hi].ext with no dot in X, the
\* regex matches iff lang is lang1 or lang2 and ext is allowed; on a match the
\* captured lang is the name's lang segment and hearing is captured iff the
\* name has the .hi segment.
C5_MatcherDecidesTheForm ==
    captures # None =>
        LET found   == captures[1]
            allowed == IF find_vtt THEN {ext_srt, ext_vtt} ELSE {ext_srt}
            wanted  == /\ file_form.lang \in {sub1_lang, sub2_lang}
                       /\ file_form.ext \in allowed
        IN  /\ (found # None) <=> wanted
            /\ found # None =>
                  /\ found[1].lang = file_form.lang
                  /\ (found[1].hearing # None) <=> file_form.hi

\* the directory of output o holds a non-hearing-impaired file of language
\* lang with o's base name
HoldsPlain(o, lang) ==
    \E k \in DOMAIN matches[o[1]] :
        LET f == matches[o[1]][k]
        IN  /\ base_file_stem(f.path[2]) = Some(o[2])
            /\ f.lang = lang
            /\ ~f.hi

\* C3: the pair merged into a base name's output file uses, for each of the
\* two languages, a non-hearing-impaired file whenever the directory holds one
\* with that base name and language, whatever the order of the listing.
C3_PlainFilePreferred ==
    rpc = "done" =>
        \A o \in DOMAIN outputs :
            /\ HoldsPlain(o, sub1_lang) => ~outputs[o].s1.hi
            /\ HoldsPlain(o, sub2_lang) => ~outputs[o].s2.hi

\* the pair the loop resolves for sub1 = matches[d][i] has been written
WrittenIfSound(d, i) ==
    LET l == Resolve(matches[d], i, sub1_lang, sub2_lang)
    IN  (/\ l[1] # None /\ l[2] # None
         /\ Outcome(l[1][1], l[2][1], OutPath(d, l[1][1])) = "written")
        => \E k \in DOMAIN journal :
              /\ journal[k].s1 = l[1][1]
              /\ journal[k].s2 = l[2][1]
              /\ journal[k].outcome = "written"
              /\ journal[k].out \in DOMAIN outputs

LowerChar(c) ==
    CASE c = "S" -> "s" [] c = "R" -> "r" [] c = "T" -> "t" [] c = "V" -> "v"
      [] OTHER -> c

\* str::to_lowercase
Lower(w) == [i \in 1 .. Len(w) |-> LowerChar(w[i])]

\* C11: load_sub dispatches on the lowercased extension: any case variant of
\* srt is parsed as SubRip, any case variant of vtt is parsed as WebVTT and
\* converted, every other extension fails naming the extension, without a track.
C11_DispatchOnLowercasedExtension ==
    (load_result # None /\ load_file.readable /\ Extension(load_path) # None) =>
        LET ext == Extension(load_path)[1]
            res == load_result[1]
        IN  /\ Lower(ext) = ext_srt =>
                  IF load_file.srt = None THEN res.kind = "parse error"
                  ELSE res.kind = "Ok" /\ res.track = load_file.srt[1]
            /\ Lower(ext) = ext_vtt =>
                  IF load_file.vtt = None THEN res.kind = "parse error"
                  ELSE res.kind = "Ok" /\ res.track = vtt_to_subrip(load_file.vtt[1])
            /\ Lower(ext) \notin {ext_srt, ext_vtt} =>
                  res.kind = "invalid extension" /\ res.ext = ext /\ res.track = <<>>

\* start <= end, as durations
Ordered(cue) == srt_to_chrono(cue.start) <= srt_to_chrono(cue.end)

\* C12: every call of apply_sub_changes, whatever its offset, leaves every cue
\* that had start <= end before the call with start <= end after it.
C12_OrderPreserved ==
    [][\A i \in 1 .. Len(srt) : Ordered(srt[i]) => Ordered(srt'[i])]_vars

\* C12 (amended): a call with offset d leaves a cue that had start <= end with
\* start <= end whenever 0 <= start + d and end + d < 256 h.
C12_OrderPreservedInRange ==
    [][\A i \in 1 .. Len(srt) :
           LET d == applied'[Len(applied')]
           IN  (/\ Ordered(srt[i])
                /\ Representable(srt[i].start, d)
                /\ Representable(srt[i].end, d)) => Ordered(srt'[i])]_vars

C12_Witness ==
    /\ applied = <<-10000>>
    /\ Len(srt) >= 1
    /\ loaded[1].start = SrtTimestamp(0, 0, 1, 0)
    /\ loaded[1].end = SrtTimestamp(0, 0, 2, 0)
    /\ srt[1].start = SrtTimestamp(0, 0, 0, 0)
    /\ srt[1].end = SrtTimestamp(0, 0, 1, 0)

=============================================================================
